---- MODULE Spec2Model ----
(***************************************************************************)
(* The two ATerm accessors of blaze/expr/utils.h: subterms (number of      *)
(* subterms of a term) and next_subterm (the n-th subterm of a term).      *)
(*                                                                         *)
(* A term is seen the way the accessors see it: the type tag and the       *)
(* symbol bits of its header, and the machine words stored at its argument *)
(* slots.  ATgetSymbol, ATgetArity and ATgetArgument are unchecked reads:  *)
(* they return whatever the header, the symbol table and the memory at the *)
(* addressed slot hold.  For an application the slots 0..arity-1 hold its  *)
(* children; every other slot, and every slot of an integer, real or blob  *)
(* term, holds an arbitrary word, chosen freely in Init.  The accessors    *)
(* read neither the symbol table entry nor the slots of a term of another  *)
(* type, and such a term is its header alone.                              *)
(***************************************************************************)
EXTENDS Integers, Sequences, FiniteSets, TLC

\* ---- bounds ----
MaxArity == 2      \* largest arity a symbol declares
MaxWord  == 2      \* machine words are 0..MaxWord

\* ---- values ----
NULL == 0

Words    == 0..MaxWord
Children == Words \ {NULL}          \* a child handle is a non-null pointer
Symbols  == {"f", "g"}
Arities  == 0..MaxArity
IdxRange == (-1)..MaxArity          \* the indices n passed to next_subterm

Types == {"AT_FREE", "AT_APPL", "AT_INT", "AT_REAL",
          "AT_LIST", "AT_PLACEHOLDER", "AT_BLOB", "AT_SYMBOL"}

ScalarTypes == {"AT_INT", "AT_REAL", "AT_BLOB"}

\* sequences over S of length 0..n
SeqUpTo(S, n) == UNION {[1..k -> S] : k \in 0..n}

VARIABLES
    t,                 \* the term handed to the accessors
    at_lookup_table,   \* symbol -> declared arity, for the symbol t's header names
    arity_seen,        \* outcome of the latest subterms(t), or NotCalled
    child_seen         \* n -> outcome of the latest next_subterm(t, n), or NotCalled

vars == <<t, at_lookup_table, arity_seen, child_seen>>

\* ---- the accessors ----

GET_TYPE(term) == term.type

ATgetSymbol(appl) == appl.sym

ATgetArity(sym) == at_lookup_table[sym]

ATgetArgument(appl, n) == appl.mem[n]

\* the case labels of the switch in subterms
SubtermsCases == {"AT_INT", "AT_REAL", "AT_BLOB", "AT_APPL"}

\* the case labels of the switch in next_subterm
NextSubtermCases_noBlob == {"AT_INT", "AT_REAL", "AT_APPL"}

NextSubtermCases == {"AT_INT", "AT_REAL", "AT_BLOB", "AT_APPL"}

subterms(term) ==
    IF GET_TYPE(term) \in SubtermsCases
    THEN ATgetArity(ATgetSymbol(term))
    ELSE NULL

next_subterm_reversed(term, n) ==
    IF GET_TYPE(term) \in NextSubtermCases
    THEN ATgetArgument(term, IF n \in 0..(ATgetArity(ATgetSymbol(term)) - 1)
                             THEN ATgetArity(ATgetSymbol(term)) - 1 - n
                             ELSE n)
    ELSE NULL

next_subterm(term, n) ==
    IF GET_TYPE(term) \in NextSubtermCases
    THEN ATgetArgument(term, n)
    ELSE NULL

\* which branch of the switch a call takes
subtermsPath(term) ==
    IF GET_TYPE(term) \in SubtermsCases THEN "appl" ELSE "default"

next_subtermPath(term) ==
    IF GET_TYPE(term) \in NextSubtermCases THEN "appl" ELSE "default"

\* ---- outcomes of calls ----
\* Both functions return a plain C value and have no other channel: a call
\* that returns carries no error.
NoError == "NoError"

NotCalled == [ret |-> 0, err |-> "NotCalled", path |-> "none"]

Returned(v, p) == [ret |-> v, err |-> NoError, path |-> p]

Called(o) == o.err # "NotCalled"

\* ---- terms ----
\* An application of symbol s to children cs holds exactly arity(s)
\* children: Len(cs) = arity(s) and slot i-1 holds cs[i].
ApplTerms ==
    {[type |-> "AT_APPL", sym |-> s, args |-> cs, mem |-> m] :
        s \in Symbols, cs \in SeqUpTo(Children, MaxArity), m \in [IdxRange -> Words]}

\* An integer, real or blob: header bits where an application has its symbol,
\* and its value and the memory around it where an application has arguments.
ScalarTerms ==
    {[type |-> ty, sym |-> s, mem |-> m] :
        ty \in ScalarTypes, s \in Symbols, m \in [IdxRange -> Words]}

OtherTerms ==
    {[type |-> ty, sym |-> s] : ty \in Types \ SubtermsCases, s \in Symbols}

Terms == ApplTerms \cup ScalarTerms \cup OtherTerms

WellFormed(term) ==
    term.type = "AT_APPL" =>
        /\ Len(term.args) = at_lookup_table[term.sym]
        /\ \A i \in 1..Len(term.args) : term.mem[i - 1] = term.args[i]

TypeOK ==
    /\ t \in Terms
    /\ at_lookup_table \in [{t.sym} -> Arities]
    /\ arity_seen.ret \in Int
    /\ \A n \in IdxRange : child_seen[n].ret \in Words

Init ==
    /\ t \in Terms
    /\ at_lookup_table \in [{t.sym} -> Arities]
    /\ WellFormed(t)
    /\ arity_seen = NotCalled
    /\ child_seen = [n \in IdxRange |-> NotCalled]

\* ---- the calls ----

\* an iterator-style next_subterm that consumes the slot it returns
CallNextSubterm_consuming(n) ==
    /\ child_seen' = [child_seen EXCEPT ![n] =
                         Returned(next_subterm(t, n), next_subtermPath(t))]
    /\ t' = IF GET_TYPE(t) \in NextSubtermCases
            THEN [t EXCEPT !.mem = [i \in IdxRange |->
                                       IF i + 1 \in IdxRange THEN t.mem[i + 1] ELSE NULL]]
            ELSE t
    /\ UNCHANGED <<at_lookup_table, arity_seen>>

CallSubterms ==
    /\ arity_seen' = Returned(subterms(t), subtermsPath(t))
    /\ UNCHANGED <<t, at_lookup_table, child_seen>>

CallNextSubterm(n) ==
    /\ child_seen' = [child_seen EXCEPT ![n] =
                         Returned(next_subterm(t, n), next_subtermPath(t))]
    /\ UNCHANGED <<t, at_lookup_table, arity_seen>>

Next ==
    \/ CallSubterms
    \/ \E n \in IdxRange : CallNextSubterm(n)

Spec == Init /\ [][Next]_vars

\* ---- helpers of the properties ----
IsAppl   == t.type = "AT_APPL"
IsScalar == t.type \in ScalarTypes
InRange(n) == IsAppl /\ n \in 0..(Len(t.args) - 1)
\* the only failure a caller can read off a returned pointer
Failed(o)  == o.err # NoError \/ o.ret = NULL
AllChildrenRead == \A n \in IdxRange : InRange(n) => Called(child_seen[n])

\* ---- properties ----

\* C1: for an application term built from symbol s and children cs, subterms
\* returns Len(cs), and next_subterm at the indices 0..Len(cs)-1 returns the
\* elements of cs in their original order.
ArityAndChildrenOfAppl ==
    IsAppl =>
        /\ Called(arity_seen) =>
              arity_seen.ret = Len(t.args) /\ arity_seen.err = NoError
        /\ \A n \in IdxRange :
              (InRange(n) /\ Called(child_seen[n])) =>
                  child_seen[n].ret = t.args[n + 1] /\ child_seen[n].err = NoError

\* an application with two different children, its arity and all its children read
ApplFullyRead ==
    /\ IsAppl
    /\ Len(t.args) >= 2
    /\ t.args[1] # t.args[2]
    /\ Called(arity_seen)
    /\ AllChildrenRead

\* C2: for an Integer, Real or Blob term subterms returns the integer 0.
ScalarArityIsZero ==
    (IsScalar /\ Called(arity_seen)) => arity_seen.ret = 0

\* C3: next_subterm(t, i) with i < 0 or i >= arity(t) fails and returns no
\* child handle.  The code has no error kinds: a NULL return is taken as
\* its report of IndexOutOfRange.  (Stated for applications; the atomic
\* terms are the subject of C4.)
OutOfRangeFails ==
    IsAppl =>
        \A n \in IdxRange :
            (~InRange(n) /\ Called(child_seen[n])) =>
                Failed(child_seen[n]) /\ child_seen[n].ret \notin Children

\* C4: for an Integer, Real or Blob term next_subterm fails at every index
\* and hands back no word read from the term.  A NULL return is taken as
\* the code's report of NotApplicable.
ScalarChildNotApplicable ==
    IsScalar =>
        \A n \in IdxRange :
            Called(child_seen[n]) => Failed(child_seen[n])

\* C5: every failure is reported so that a caller can tell it from a valid
\* result: a failing subterms does not return a valid arity, and a failing
\* next_subterm does not return a value that could be a child handle.
FailuresDistinguishable ==
    /\ (Called(arity_seen) /\ arity_seen.path = "default") =>
          arity_seen.err # NoError \/ arity_seen.ret \notin Arities
    /\ \A n \in IdxRange :
          (Called(child_seen[n]) /\ (child_seen[n].path = "default" \/ ~InRange(n))) =>
              child_seen[n].err # NoError \/ child_seen[n].ret \notin Children

\* C9: the accessors are read-only and restartable: a call changes neither
\* the term nor the symbol table, and a call that was made before returns
\* the same outcome when it is made again.
AccessorsReadOnly ==
    [][ /\ t' = t
        /\ at_lookup_table' = at_lookup_table
        /\ Called(arity_seen) => arity_seen' = arity_seen
        /\ \A n \in IdxRange : Called(child_seen[n]) => child_seen'[n] = child_seen[n]
      ]_vars

\* every call has been made once on an application with two children, so
\* that each further call repeats an earlier one
EveryCallMade ==
    /\ IsAppl
    /\ Len(t.args) >= 2
    /\ Called(arity_seen)
    /\ \A n \in IdxRange : Called(child_seen[n])

\* C10: subterms and next_subterm accept the same term kinds: both take the
\* application path exactly for AT_INT, AT_REAL, AT_BLOB and AT_APPL, and
\* both take the default path and return NULL for every other tag.
SameKindsAccepted ==
    LET accepted == t.type \in {"AT_INT", "AT_REAL", "AT_BLOB", "AT_APPL"} IN
    /\ Called(arity_seen) =>
          /\ (arity_seen.path = "appl") <=> accepted
          /\ ~accepted => arity_seen.ret = NULL
    /\ \A n \in IdxRange :
          Called(child_seen[n]) =>
              /\ (child_seen[n].path = "appl") <=> accepted
              /\ ~accepted => child_seen[n].ret = NULL
              /\ Called(arity_seen) => child_seen[n].path = arity_seen.path

\* both accessors called on a blob, and both on the application path
BlobReadByBoth ==
    /\ t.type = "AT_BLOB"
    /\ Called(arity_seen)
    /\ arity_seen.path = "appl"
    /\ \E n \in IdxRange : Called(child_seen[n]) /\ child_seen[n].path = "appl"

====
